---- MODULE Spec2Model ----
(***************************************************************************)
(* A model of the quiz generator of jp-grammar-api (src/api.py): the       *)
(* sampling utility _sample, the masking utility _hide_pattern, the four   *)
(* question builders and the /quiz endpoint that assembles them.           *)
(*                                                                         *)
(* A Python str is a sequence of one-character strings; None is the        *)
(* one-element sequence <<"None">>, which no str equals.  The characters   *)
(* stand for the classes the code tells apart: "k" and "j" are two         *)
(* kana/kanji characters (the class of the fallback regex), "(" is any     *)
(* other printing character (also a regex metacharacter), " " is           *)
(* whitespace, "_" is the character of the blank token and "-" stands for  *)
(* the em-dash of the placeholder.                                         *)
(***************************************************************************)
EXTENDS Integers, Sequences, FiniteSets, TLC

VARIABLES
    s_seq, s_k, s_ret, s_pc,          \* one call of _sample(seq, k)
    m_text, m_pattern, m_ret, m_pc,   \* one call of _hide_pattern(text, pattern)
    db_points, db_examples,           \* the rows the store holds for the request's filter
    n, type, lang,                    \* the query parameters of GET /quiz
    pc,                               \* where the request is in quiz()
    points, examples, questions,      \* the locals of quiz()
    oi, made, guard,                  \* loop state: position in order, made, guard
    passes,                           \* passes of the mix loop begun so far
    fetched,                          \* whether _load_examples was called
    status, response,                 \* how the request ended and what it returned
    _supabase,                        \* the module-level client of supabase()
    c_pc, c_new, c_ret,               \* per thread: position in supabase(), client made, client returned
    created,                          \* calls of create_client so far
    grammar_points, ex_table,         \* the store's tables grammar_points and examples
    csv,                              \* the rows of the CSV file the loaders read
    l_loader, l_pc,                   \* the loader that runs and where it is
    l_df, l_groups, l_rows,           \* the cleaned frame, the groups and the rows still to do
    l_grammar_id,                     \* grammar_id: id of the point of the current group
    new_points, updated_points,       \* the counters of the run
    examples_inserted, examples_skipped,
    l_runs, l_before,                 \* runs completed, and by which loaders before this run
    p_pc, p_step,                     \* expand_all: position, index of the step
    p_started, p_statuses,            \* the steps started and the exit statuses seen
    p_log, p_exit                     \* what the pipeline printed, its own exit status

sample_vars == <<s_seq, s_k, s_ret, s_pc>>
mask_vars   == <<m_text, m_pattern, m_ret, m_pc>>
input_vars  == <<db_points, db_examples, n, type, lang>>
quiz_vars   == <<db_points, db_examples, n, type, lang, pc, points, examples,
                questions, oi, made, guard, passes, fetched, status, response>>
client_vars == <<_supabase, c_pc, c_new, c_ret, created>>
loader_vars == <<grammar_points, ex_table, csv, l_loader, l_pc, l_df, l_groups,
                l_rows, l_grammar_id, new_points, updated_points,
                examples_inserted, examples_skipped, l_runs, l_before>>
pipeline_vars == <<p_pc, p_step, p_started, p_statuses, p_log, p_exit>>
batch_vars  == <<loader_vars, pipeline_vars>>
vars        == <<s_seq, s_k, s_ret, s_pc, m_text, m_pattern, m_ret, m_pc,
                db_points, db_examples, n, type, lang, pc, points, examples,
                questions, oi, made, guard, passes, fetched, status, response,
                _supabase, c_pc, c_new, c_ret, created,
                grammar_points, ex_table, csv, l_loader, l_pc, l_df, l_groups,
                l_rows, l_grammar_id, new_points, updated_points,
                examples_inserted, examples_skipped, l_runs, l_before,
                p_pc, p_step, p_started, p_statuses, p_log, p_exit>>

---------------------------------------------------------------------------
(* Bounds of the model.                                                    *)

MaxSeqLen == 4      \* longest list handed to _sample
MaxTextLen == 4     \* longest sentence handed to _hide_pattern
MaxPatLen == 2      \* longest target handed to _hide_pattern (the blank token aside)
MaxThreads == 3     \* request threads that call supabase() at the same time
MaxRows == 3        \* most rows of the CSV file the loaders read
MaxRuns == 3        \* most loader runs over the file, one after the other

---------------------------------------------------------------------------
(* Python values.                                                          *)

None == <<"None">>

JpChars == {"k", "j"}
Whitespace == {" "}
Chars == JpChars \cup Whitespace \cup {"(", "_"}

StrUpTo(alphabet, len) == UNION {[1..m -> alphabet] : m \in 0..len}

Min(a, b) == IF a < b THEN a ELSE b
Max(a, b) == IF a > b THEN a ELSE b

\* bool(x) of an Optional[str]: None and "" are false
Truthy(x) == x # None /\ x # <<>>

\* x or y
Or(x, y) == IF Truthy(x) THEN x ELSE y

RECURSIVE lstrip(_)
lstrip(s) ==
    IF s # <<>> /\ Head(s) \in Whitespace THEN lstrip(Tail(s)) ELSE s

RECURSIVE rstrip(_)
rstrip(s) ==
    IF s # <<>> /\ s[Len(s)] \in Whitespace
    THEN rstrip(SubSeq(s, 1, Len(s) - 1)) ELSE s

\* str.strip()
strip(s) == rstrip(lstrip(s))

\* number of positions of seq holding v
Count(seq, v) == Cardinality({i \in DOMAIN seq : seq[i] = v})

\* the values a sequence holds
Range(seq) == {seq[i] : i \in DOMAIN seq}

\* a call's outcome: a returned value, or an exception leaving the call
Return(v) == [raised |-> FALSE, value |-> v]
Raise == [raised |-> TRUE, value |-> <<>>]
NoCall == [raised |-> FALSE, value |-> None]

\* what the calls that returned have returned
Returns(outcomes) == {o.value : o \in {x \in outcomes : ~x.raised}}

---------------------------------------------------------------------------
(* random.sample, random.shuffle, list.index                               *)

\* the ways of taking m pairwise distinct positions of 1..len, one after another
RECURSIVE Injections(_, _)
Injections(m, len) ==
    IF m = 0 THEN {<<>>}
    ELSE UNION {{Append(f, x) : x \in (1..len) \ Range(f)} :
                   f \in Injections(m - 1, len)}

\* random.sample(seq, k): k elements from distinct positions, in any order;
\* ValueError when k is negative or larger than the population
random_sample(seq, k) ==
    IF k < 0 \/ k > Len(seq)
    THEN {Raise}
    ELSE {Return([i \in 1..k |-> seq[f[i]]]) : f \in Injections(k, Len(seq))}

\* random.shuffle(seq): every arrangement of the list
random_shuffle(seq) ==
    {[i \in 1..Len(seq) |-> seq[f[i]]] : f \in Injections(Len(seq), Len(seq))}

\* seq.index(v): the first position holding v (0-based), scanning from the left
RECURSIVE index_from(_, _, _)
index_from(seq, v, i) ==
    IF i > Len(seq) THEN -1
    ELSE IF seq[i] = v THEN i - 1
    ELSE index_from(seq, v, i + 1)

\* a slip: the position of the last occurrence
index_last(seq, v) ==
    IF \E i \in DOMAIN seq : seq[i] = v
    THEN (CHOOSE i \in DOMAIN seq :
            seq[i] = v /\ \A j \in DOMAIN seq : seq[j] = v => j <= i) - 1
    ELSE -1

index(seq, v) == index_from(seq, v, 1)

---------------------------------------------------------------------------
(* _sample                                                                 *)

\* a slip: the cap of k at len(seq) left out
sample_uncapped(seq, k) ==
    IF seq = <<>> \/ k <= 0 THEN {Return(<<>>)}
    ELSE random_sample(seq, k)

_sample(seq, k) ==
    IF seq = <<>> \/ k <= 0 THEN {Return(<<>>)}
    ELSE IF k >= Len(seq) THEN random_sample(seq, Len(seq))
    ELSE random_sample(seq, k)

---------------------------------------------------------------------------
(* _hide_pattern                                                           *)

BlankToken == <<"_", "_", "_", "_">>

\* a slip: count=1, only the first occurrence is replaced
RECURSIVE re_sub_literal_once(_, _, _)
re_sub_literal_once(pat, repl, text) ==
    IF pat = <<>> THEN repl \o text
    ELSE IF Len(text) < Len(pat) THEN text
    ELSE IF SubSeq(text, 1, Len(pat)) = pat
         THEN repl \o SubSeq(text, Len(pat) + 1, Len(text))
    ELSE <<Head(text)>> \o re_sub_literal_once(pat, repl, Tail(text))

\* re.sub(re.escape(pat), repl, text): every leftmost non-overlapping
\* occurrence of the literal pat; the empty pat matches before every
\* character and at the end
RECURSIVE re_sub_literal(_, _, _)
re_sub_literal(pat, repl, text) ==
    IF pat = <<>>
    THEN IF text = <<>> THEN repl
         ELSE repl \o <<Head(text)>> \o re_sub_literal(pat, repl, Tail(text))
    ELSE IF Len(text) < Len(pat) THEN text
    ELSE IF SubSeq(text, 1, Len(pat)) = pat
         THEN repl \o re_sub_literal(pat, repl, SubSeq(text, Len(pat) + 1, Len(text)))
    ELSE <<Head(text)>> \o re_sub_literal(pat, repl, Tail(text))

\* the length of the run of kana/kanji characters text starts with
RECURSIVE JpRunLen(_)
JpRunLen(text) ==
    IF text # <<>> /\ Head(text) \in JpChars THEN 1 + JpRunLen(Tail(text)) ELSE 0

\* re.sub(r"[ぁ-んァ-ン一-龯]{2,}", repl, text, count=1): the leftmost match,
\* greedy, once
RECURSIVE re_sub_jp_run(_, _)
re_sub_jp_run(repl, text) ==
    IF text = <<>> THEN text
    ELSE IF JpRunLen(text) >= 2
         THEN repl \o SubSeq(text, JpRunLen(text) + 1, Len(text))
    ELSE <<Head(text)>> \o re_sub_jp_run(repl, Tail(text))

\* a slip: the fallback regex with {1,}
RECURSIVE re_sub_jp_run1(_, _)
re_sub_jp_run1(repl, text) ==
    IF text = <<>> THEN text
    ELSE IF JpRunLen(text) >= 1
         THEN repl \o SubSeq(text, JpRunLen(text) + 1, Len(text))
    ELSE <<Head(text)>> \o re_sub_jp_run1(repl, Tail(text))

_hide_pattern(text, pattern) ==
    IF ~Truthy(text) THEN <<>>
    ELSE LET masked == re_sub_literal(strip(pattern), BlankToken, text)
         IN  IF Truthy(pattern) /\ masked # text
             THEN masked
             ELSE re_sub_jp_run(BlankToken, text)

---------------------------------------------------------------------------
(* The domain models and the question builders.                            *)

\* the em-dash standing in for a missing answer
Placeholder == <<"-">>

\* a slip: one distractor too few
TwoDistractors == 3 - 1

\* _sample(candidates, 3): the number of distractors asked for
NumDistractors == 3

\* len(candidates) < 3: below this many same-level candidates _q_cloze widens
WidenBelow == 3

GrammarPoint(id, level_code, title, pattern, meaning_es, meaning_en) ==
    [id |-> id, level_code |-> level_code, title |-> title, pattern |-> pattern,
     meaning_es |-> meaning_es, meaning_en |-> meaning_en]

Example(id, grammar_id, level_code, pattern, jp, es, en) ==
    [id |-> id, grammar_id |-> grammar_id, level_code |-> level_code,
     pattern |-> pattern, jp |-> jp, es |-> es, en |-> en]

\* correct and candidates are the builder's locals, kept beside the fields
\* of the response model so that the properties can name them; prompt holds
\* the text the builder puts into the prompt
QuizQuestion(id, qtype, prompt, jp, picked, meta, correct, candidates) ==
    [id |-> id, type |-> qtype, prompt |-> prompt, jp |-> jp,
     choices |-> picked.choices, answer_idx |-> picked.answer_idx, meta |-> meta,
     correct |-> correct, candidates |-> candidates]

\* a slip: the first record is never chosen, random.choice(seq[1:])
choice_of_rest(seq) ==
    IF Len(seq) <= 1 THEN {Raise} ELSE {Return(seq[i]) : i \in 2..Len(seq)}

\* random.choice(seq): IndexError on an empty list
random_choice(seq) ==
    IF seq = <<>> THEN {Raise} ELSE {Return(seq[i]) : i \in DOMAIN seq}

\* a slip: the candidates are not deduplicated
keep_duplicates(seq) == seq

\* list(dict.fromkeys(seq)): the first occurrence of every value, in order
RECURSIVE dict_fromkeys(_)
dict_fromkeys(seq) ==
    IF seq = <<>> THEN <<>>
    ELSE LET init == dict_fromkeys(SubSeq(seq, 1, Len(seq) - 1))
             last == seq[Len(seq)]
         IN  IF last \in Range(init) THEN init ELSE Append(init, last)

\* distractors = _sample(candidates, 3); choices = distractors + [correct];
\* random.shuffle(choices); answer_idx = choices.index(correct)
pick_choices(candidates, correct) ==
    UNION {
        IF d.raised THEN {Raise}
        ELSE {IF index(c, correct) < 0 THEN Raise
              ELSE Return([choices |-> c, answer_idx |-> index(c, correct)]) :
                 c \in random_shuffle(d.value \o <<correct>>)} :
        d \in _sample(candidates, NumDistractors)}

\* return QuizQuestion(...): the question of every way the choices can fall
\* out, q[c] being the question with choices c
question_outcomes(picks, q) ==
    {IF c.raised THEN Raise ELSE Return(q[c.value]) : c \in picks}

_q_pattern(p, pool) ==
    LET correct == Or(strip(Or(p.pattern, <<>>)), Placeholder)
        others == SelectSeq(pool, LAMBDA x :
                      x.id # p.id /\ Truthy(strip(Or(x.pattern, <<>>))))
        candidates == [i \in DOMAIN others |-> others[i].pattern]
        prompt == strip(Or(p.meaning_es, Or(p.title, <<>>)))
        picks == pick_choices(candidates, correct)
    IN  question_outcomes(picks, [c \in Returns(picks) |->
            QuizQuestion(p.id, "pattern", prompt, None, c,
                         [level |-> p.level_code], correct, candidates)])

_q_meaning(p, pool, lng) ==
    LET meaning(x) == IF lng = "es" THEN x.meaning_es ELSE x.meaning_en
        correct == Or(Or(meaning(p), p.title), Placeholder)
        others == SelectSeq(pool, LAMBDA x : x.id # p.id)
        glosses == [i \in DOMAIN others |-> Or(meaning(others[i]), others[i].title)]
        candidates == SelectSeq(glosses, Truthy)
        show == strip(Or(p.pattern, Or(p.title, <<>>)))
        picks == pick_choices(candidates, correct)
    IN  question_outcomes(picks, [c \in Returns(picks) |->
            QuizQuestion(p.id, "meaning", show, None, c,
                         [level |-> p.level_code], correct, candidates)])

_q_translation(ex, pool, lng) ==
    LET tr(x) == IF lng = "es" THEN x.es ELSE x.en
        correct == Or(tr(ex), <<>>)
        others == SelectSeq(pool, LAMBDA x : x.id # ex.id)
        texts == [i \in DOMAIN others |-> Or(tr(others[i]), <<>>)]
        candidates == SelectSeq(texts, LAMBDA c : Truthy(c) /\ c # correct)
        picks == pick_choices(candidates, correct)
    IN  question_outcomes(picks, [c \in Returns(picks) |->
            QuizQuestion(Or(ex.id, <<>>), "translation", <<>>, Or(ex.jp, <<>>), c,
                         [grammar_id |-> ex.grammar_id, level |-> ex.level_code],
                         correct, candidates)])

_q_cloze(ex, gp_lookup, pool_points) ==
    LET pattern == IF Truthy(ex.grammar_id) /\ ex.grammar_id \in DOMAIN gp_lookup
                   THEN gp_lookup[ex.grammar_id].pattern
                   ELSE None
        masked == _hide_pattern(Or(ex.jp, <<>>), pattern)
        correct == strip(Or(Or(pattern, ex.pattern), Placeholder))
        same_level == SelectSeq(pool_points, LAMBDA p :
                          p.level_code = Or(ex.level_code, <<>>))
        eligible(ps) ==
            LET kept == SelectSeq(ps, LAMBDA p :
                            Truthy(p.pattern) /\ p.pattern # correct)
            IN  [i \in DOMAIN kept |-> kept[i].pattern]
        level_cands == eligible(same_level)
        widened == IF Len(level_cands) < WidenBelow
                   THEN level_cands \o eligible(pool_points)
                   ELSE level_cands
        candidates == dict_fromkeys(SelectSeq(widened, Truthy))
        picks == pick_choices(candidates, correct)
    IN  question_outcomes(picks, [c \in Returns(picks) |->
            QuizQuestion(Or(ex.id, <<>>), "cloze", <<>>, masked, c,
                         [grammar_id |-> ex.grammar_id, level |-> ex.level_code],
                         correct, candidates)])

---------------------------------------------------------------------------
(* The idle parts of a specification that exercises one component.         *)

\* no request is being served
QuizIdle ==
    /\ db_points = <<>> /\ db_examples = <<>>
    /\ n = 1 /\ type = "mix" /\ lang = "es"
    /\ pc = "idle"
    /\ points = <<>> /\ examples = <<>> /\ questions = <<>>
    /\ oi = 1 /\ made = FALSE /\ guard = 0 /\ passes = 0
    /\ fetched = FALSE /\ status = "none" /\ response = <<>>

\* no utility call is being made
UtilIdle ==
    /\ s_seq = <<>> /\ s_k = 0 /\ s_ret = NoCall /\ s_pc = "idle"
    /\ m_text = None /\ m_pattern = None /\ m_ret = None /\ m_pc = "idle"

\* _supabase: Optional[Client] = None; the clients made are numbered from 1
NoClient == 0

\* the request threads of the worker pool
Threads == 1..MaxThreads

\* no thread is in supabase() and no client was made
ClientIdle ==
    /\ _supabase = NoClient
    /\ c_pc = [th \in Threads |-> "idle"]
    /\ c_new = [th \in Threads |-> NoClient]
    /\ c_ret = [th \in Threads |-> NoClient]
    /\ created = 0

\* no loader runs: the store is empty and there is no file
LoaderIdle ==
    /\ grammar_points = <<>> /\ ex_table = <<>> /\ csv = <<>>
    /\ l_loader = "none" /\ l_pc = "idle"
    /\ l_df = <<>> /\ l_groups = <<>> /\ l_rows = <<>>
    /\ l_grammar_id = 0
    /\ new_points = 0 /\ updated_points = 0
    /\ examples_inserted = 0 /\ examples_skipped = 0
    /\ l_runs = 0 /\ l_before = {}

\* exit status of a process that has not exited
NoExit == -1

\* expand_all does not run
PipelineIdle ==
    /\ p_pc = "idle" /\ p_step = 0
    /\ p_started = <<>> /\ p_statuses = <<>> /\ p_log = <<>>
    /\ p_exit = NoExit

\* neither batch program runs
BatchIdle == LoaderIdle /\ PipelineIdle

---------------------------------------------------------------------------
(* GET /quiz                                                               *)

\* n: int = Query(10, ge=1, le=50)
MinCount == 1
MaxCount == 50

\* while len(questions) < n and guard < 200
GuardLimit == 200

Types == {"mix", "cloze", "pattern", "meaning", "translation"}
Langs == {"es", "en"}

\* a slip: pattern is tried before cloze
order_swapped == <<"pattern", "cloze", "meaning", "translation">>

\* order = ["cloze", "pattern", "meaning", "translation"]
order == <<"cloze", "pattern", "meaning", "translation">>

\* a slip: meaning is the first alternative
alt_meaning_first == <<"meaning", "pattern", "cloze", "translation">>

\* for alt_name in ["pattern", "meaning", "cloze", "translation"]
alt_names == <<"pattern", "meaning", "cloze", "translation">>

\* gp_by_id = {p.id: p for p in points}: a later point replaces an earlier
\* one of the same id
gp_by_id(pts) ==
    [id \in {pts[i].id : i \in DOMAIN pts} |->
        pts[CHOOSE i \in DOMAIN pts :
               pts[i].id = id /\ \A j \in DOMAIN pts : pts[j].id = id => j <= i]]

\* what a call of one of the add_* closures does: it raises, or it returns
\* made with questions possibly one longer
Made(qs) == [raised |-> FALSE, made |-> TRUE, questions |-> qs]
NotMade(qs) == [raised |-> FALSE, made |-> FALSE, questions |-> qs]
Raised(qs) == [raised |-> TRUE, made |-> FALSE, questions |-> qs]

\* a slip: the question is built and not appended
not_appended(built) ==
    {IF q.raised THEN Raised(questions) ELSE Made(questions) : q \in built}

\* questions.append(q) for every question the builder can return
appended(built) ==
    {IF q.raised THEN Raised(questions) ELSE Made(Append(questions, q.value)) :
        q \in built}

\* ex = random.choice(pool); questions.append(Build(ex)); return True
add_from(pool, built) ==
    UNION {IF f.raised THEN {Raised(questions)} ELSE appended(built[f.value]) :
              f \in random_choice(pool)}

\* a slip: the test for an empty pool left out
never_empty(ex_pool) == FALSE

\* if not ex_pool
no_pool(ex_pool) == ex_pool = <<>>

add_cloze ==
    LET ex_pool == SelectSeq(examples, LAMBDA e :
                       Truthy(e.jp) /\ (Truthy(e.grammar_id) \/ Truthy(e.pattern)))
    IN  IF no_pool(ex_pool) THEN {NotMade(questions)}
        ELSE add_from(ex_pool, [ex \in Range(ex_pool) |->
                                   _q_cloze(ex, gp_by_id(points), points)])

add_translation ==
    LET ex_pool == SelectSeq(examples, LAMBDA e :
                       Truthy(IF lang = "es" THEN e.es ELSE e.en))
    IN  IF no_pool(ex_pool) THEN {NotMade(questions)}
        ELSE add_from(ex_pool, [ex \in Range(ex_pool) |->
                                   _q_translation(ex, ex_pool, lang)])

add_pattern == add_from(points, [p \in Range(points) |-> _q_pattern(p, points)])

add_meaning ==
    add_from(points, [p \in Range(points) |-> _q_meaning(p, points, lang)])

builders(name) ==
    CASE name = "cloze" -> add_cloze
      [] name = "translation" -> add_translation
      [] name = "pattern" -> add_pattern
      [] name = "meaning" -> add_meaning

\* the request ends with an exception other than the 404
Crash ==
    /\ pc' = "done"
    /\ status' = "error"
    /\ UNCHANGED <<questions, oi, made, guard, passes, response>>

\* a slip: the test for an empty points list left out
always_points(pts) == FALSE

\* if not points
no_points(pts) == pts = <<>>

\* a slip: the loop stops one question short
mix_while_short(qs) ==
    IF Len(qs) < n - 1
    THEN /\ pc' = "mix" /\ oi' = 1 /\ made' = FALSE /\ passes' = passes + 1
    ELSE /\ pc' = "shuffle" /\ UNCHANGED <<oi, made, passes>>

\* while len(questions) < n -- the test of the mix loop, on entry and after a pass
mix_while(qs) ==
    IF Len(qs) < n
    THEN /\ pc' = "mix" /\ oi' = 1 /\ made' = FALSE /\ passes' = passes + 1
    ELSE /\ pc' = "shuffle" /\ UNCHANGED <<oi, made, passes>>

\* points = _load_points(level_code); if not points: raise HTTPException(404)
quiz_not_found ==
    /\ pc = "start"
    /\ no_points(db_points)
    /\ points' = db_points
    /\ pc' = "done"
    /\ status' = "404"
    /\ UNCHANGED <<input_vars, examples, questions, oi, made, guard, passes,
                   fetched, response>>

\* the points are there: gp_by_id, examples, questions = [], and into the loop
quiz_load ==
    /\ pc = "start"
    /\ ~no_points(db_points)
    /\ points' = db_points
    /\ IF type \in {"mix", "cloze", "translation"}
       THEN examples' = db_examples /\ fetched' = TRUE
       ELSE examples' = <<>> /\ UNCHANGED fetched
    /\ questions' = <<>>
    /\ IF type = "mix"
       THEN mix_while(<<>>) /\ UNCHANGED guard
       ELSE pc' = "single" /\ guard' = 0 /\ UNCHANGED <<oi, made, passes>>
    /\ UNCHANGED <<input_vars, status, response>>

\* one turn of: for t in order
mix_try ==
    /\ pc = "mix"
    /\ IF Len(questions) >= n
       THEN /\ pc' = "mix_end"
            /\ UNCHANGED <<questions, oi, made, guard, passes, status, response>>
       ELSE \E r \in builders(order[oi]) :
               IF r.raised THEN Crash
               ELSE /\ questions' = r.questions
                    /\ made' = (made \/ r.made)
                    /\ oi' = oi + 1
                    /\ pc' = IF oi = Len(order) THEN "mix_end" ELSE "mix"
                    /\ UNCHANGED <<guard, passes, status, response>>
    /\ UNCHANGED <<input_vars, points, examples, fetched>>

\* if not made: if not add_pattern() and not add_meaning(): break
mix_fill ==
    IF made THEN {NotMade(questions)}
    ELSE UNION {IF r.raised \/ r.made THEN {r} ELSE add_meaning : r \in add_pattern}

\* the end of a pass of the mix loop, and the test for the next one
mix_end ==
    /\ pc = "mix_end"
    /\ \E r \in mix_fill :
          IF r.raised THEN Crash
          ELSE /\ questions' = r.questions
               /\ IF ~made /\ ~r.made
                  THEN pc' = "shuffle" /\ UNCHANGED <<oi, made, passes>>
                  ELSE mix_while(r.questions)
               /\ UNCHANGED <<guard, status, response>>
    /\ UNCHANGED <<input_vars, points, examples, fetched>>

\* the fallback of the single-type loop: the first other type, from position
\* i of alt_names on, that makes a question
RECURSIVE alternatives(_)
alternatives(i) ==
    IF i > Len(alt_names) THEN {NotMade(questions)}
    ELSE IF alt_names[i] = type THEN alternatives(i + 1)
    ELSE UNION {IF r.raised \/ r.made THEN {r} ELSE alternatives(i + 1) :
                   r \in builders(alt_names[i])}

\* build(), then the fallback when it made nothing
single_build ==
    UNION {IF r.raised \/ r.made THEN {r} ELSE alternatives(1) : r \in builders(type)}

\* one turn of: while len(questions) < n and guard < 200
single_try ==
    /\ pc = "single"
    /\ IF Len(questions) < n /\ guard < GuardLimit
       THEN \E r \in single_build :
               IF r.raised THEN Crash
               ELSE /\ questions' = r.questions
                    /\ IF r.made
                       THEN pc' = "single" /\ guard' = guard + 1
                       ELSE pc' = "shuffle" /\ UNCHANGED guard
                    /\ UNCHANGED <<oi, made, passes, status, response>>
       ELSE /\ pc' = "shuffle"
            /\ UNCHANGED <<questions, oi, made, guard, passes, status, response>>
    /\ UNCHANGED <<input_vars, points, examples, fetched>>

\* questions[:n]
truncate(qs) == SubSeq(qs, 1, Min(n, Len(qs)))

\* random.shuffle(questions); return questions[:n]
quiz_return ==
    /\ pc = "shuffle"
    /\ \E shuffled \in random_shuffle(questions) :
          /\ questions' = shuffled
          /\ response' = truncate(shuffled)
    /\ status' = "ok"
    /\ pc' = "done"
    /\ UNCHANGED <<input_vars, points, examples, oi, made, guard, passes, fetched>>

Next ==
    /\ \/ quiz_not_found
       \/ quiz_load
       \/ mix_try
       \/ mix_end
       \/ single_try
       \/ quiz_return
    /\ UNCHANGED <<sample_vars, mask_vars, client_vars, batch_vars>>

---------------------------------------------------------------------------
(* The rows the store can hold and the requests that can arrive.           *)

MaxPoints == 4        \* most grammar points of a one-question request
MaxExamples == 4      \* most examples of a one-question request
MaxRecords == 5       \* most rows, points and examples together, of such a request
MaxLoad == 5          \* most rows and questions asked for, together, of any other request
MaxClozePoints == 4   \* most grammar points of a request for one cloze question
MaxMixLoad == 6       \* most weighted rows and questions, together, of a request for a mix

N5 == <<"N", "5">>
N4 == <<"N", "4">>

PointIds == <<<<"p1">>, <<"p2">>, <<"p3">>, <<"p4">>, <<"p5">>, <<"p6">>, <<"p7">>>>
\* Example.id is Optional[str]: the third example of a pool comes without one
ExampleIds == <<<<"e1">>, <<"e2">>, None, <<"e4">>, <<"e5">>, <<"e6">>, <<"e7">>>>

\* the kinds of grammar_points rows: distinct patterns and glosses, a pattern
\* with surrounding whitespace, repeated values, missing and blank fields
PointKinds == <<
    GrammarPoint(None, N5, <<"s">>, <<"k">>, <<"a">>, <<"e">>),
    GrammarPoint(None, N5, <<"t">>, <<"j">>, <<"b">>, None),
    GrammarPoint(None, N4, <<"u">>, <<"k", "j">>, <<"c">>, <<"f">>),
    GrammarPoint(None, N5, <<"s">>, <<" ", "k">>, <<"a">>, <<"e">>),
    GrammarPoint(None, N5, <<"v">>, <<"k">>, None, <<>>),
    GrammarPoint(None, N4, <<>>, None, None, None),
    GrammarPoint(None, N5, <<"w">>, <<" ">>, <<>>, <<"g">>) >>

\* the kinds of examples rows: linked to the first or second point, unlinked
\* with a pattern of their own that the sentence holds twice, without either,
\* without a sentence, with repeated, missing and empty translations
ExampleKinds == <<
    Example(None, <<"p1">>, N5, None, <<"k", "j", "(", "k">>, <<"x">>, <<"m">>),
    Example(None, <<"p2">>, N4, <<"j">>, <<"(", "j", "k">>, <<"y">>, None),
    Example(None, None, None, <<"k", "j">>, <<"k", "j", "(", "k", "j">>, <<"z">>, <<"n">>),
    Example(None, <<"p1">>, N5, None, <<"(">>, <<"x">>, <<>>),
    Example(None, None, N5, None, <<"k", "(">>, <<"w">>, <<"m">>),
    Example(None, <<"p1">>, N5, None, None, <<"v">>, None) >>

\* the rows of the kinds picked, in the order of the kinds, ids by position
Rows(kinds, ids, picked) ==
    [i \in 1..Len(picked) |-> [kinds[picked[i]] EXCEPT !.id = ids[i]]]

\* the ascending selections of up to most of the first many kinds
Selections(many, most) ==
    UNION {{f \in [1..m -> 1..many] : \A i, j \in 1..m : i < j => f[i] < f[j]} :
              m \in 0..Min(most, many)}

PointPools(most) ==
    {Rows(PointKinds, PointIds, f) : f \in Selections(Len(PointKinds), most)}

\* the first m kinds of grammar points, for up to most of them
PointPrefixes(most) ==
    {Rows(PointKinds, PointIds, [i \in 1..m |-> i]) :
        m \in 0..Min(most, Len(PointKinds))}

ExamplePools(most) ==
    {Rows(ExampleKinds, ExampleIds, f) : f \in Selections(Len(ExampleKinds), most)}

QuizStart ==
    /\ pc = "start"
    /\ points = <<>> /\ examples = <<>> /\ questions = <<>>
    /\ oi = 1 /\ made = FALSE /\ guard = 0 /\ passes = 0
    /\ fetched = FALSE /\ status = "none" /\ response = <<>>
    /\ UtilIdle
    /\ ClientIdle
    /\ BatchIdle

\* a request for one question of one type over pools large enough for four
\* choices; the examples are listed for the types that fetch them
InitBuilders ==
    /\ db_points \in PointPools(MaxPoints)
    /\ db_examples \in ExamplePools(MaxExamples)
    /\ Len(db_points) + Len(db_examples) <= MaxRecords
    /\ n = MinCount
    /\ type \in Types \ {"mix"}
    /\ type \in {"pattern", "meaning"} => db_examples = <<>>
    /\ lang \in Langs
    /\ QuizStart

\* a request for n questions over pools the smaller the larger n is
Init ==
    /\ db_points \in PointPrefixes(MaxLoad)
    /\ db_examples \in ExamplePools(MaxLoad)
    /\ n \in MinCount..Min(MaxLoad, MaxCount)
    /\ Len(db_points) + Len(db_examples) + n <= MaxLoad
    /\ type \in Types
    /\ lang \in Langs
    /\ QuizStart

\* a request for one type never enters the mix loop
NextBuilders ==
    /\ \/ quiz_not_found
       \/ quiz_load
       \/ single_try
       \/ quiz_return
    /\ UNCHANGED <<sample_vars, mask_vars, client_vars, batch_vars>>

SpecBuilders == InitBuilders /\ [][NextBuilders]_vars

\* the grammar points of a request for one cloze question: a pattern held
\* twice at a level, and again at the other level, beside distinct ones
ClozePointKinds == <<
    GrammarPoint(None, N5, <<"s">>, <<"k">>, <<"a">>, <<"e">>),
    GrammarPoint(None, N5, <<"t">>, <<"k">>, <<"b">>, None),
    GrammarPoint(None, N5, <<"u">>, <<"j">>, <<"c">>, <<"f">>),
    GrammarPoint(None, N5, <<"v">>, <<"k", "j">>, None, <<>>),
    GrammarPoint(None, N4, <<"w">>, <<"k", "(">>, <<"d">>, <<"g">>),
    GrammarPoint(None, N4, <<"x">>, <<"k">>, <<"a">>, <<"e">>) >>

\* its one example: with a pattern of its own at the first level, linked to
\* the first point, and with a pattern of its own and no level
ClozeExampleKinds == <<
    Example(None, None, N5, <<"(">>, <<"k", "j", "(">>, <<"x">>, <<"m">>),
    Example(None, <<"p1">>, N5, None, <<"k", "(", "j">>, <<"y">>, None),
    Example(None, None, None, <<"(">>, <<"(", "j", "k">>, <<"z">>, <<"n">>) >>

\* a request for one cloze question over such rows
InitCloze ==
    /\ db_points \in {Rows(ClozePointKinds, PointIds, f) :
                         f \in Selections(Len(ClozePointKinds), MaxClozePoints)}
    /\ db_examples \in {Rows(ClozeExampleKinds, ExampleIds, <<i>>) :
                           i \in DOMAIN ClozeExampleKinds}
    /\ n = MinCount
    /\ type = "cloze"
    /\ lang \in Langs
    /\ QuizStart

SpecCloze == InitCloze /\ [][NextBuilders]_vars

\* a mix request for many questions over few rows: against the budget every
\* point after the first counts four times, every example and every question
\* asked for once
InitMix ==
    /\ db_points \in PointPrefixes(MaxMixLoad)
    /\ db_examples \in ExamplePools(MaxMixLoad)
    /\ n \in MinCount..Min(MaxMixLoad, MaxCount)
    /\ 4 * (Len(db_points) - 1) + Len(db_examples) + n <= MaxMixLoad
    /\ type = "mix"
    /\ lang \in Langs
    /\ QuizStart

\* a mix request never enters the single-type loop
NextMix ==
    /\ \/ quiz_not_found
       \/ quiz_load
       \/ mix_try
       \/ mix_end
       \/ quiz_return
    /\ UNCHANGED <<sample_vars, mask_vars, client_vars, batch_vars>>

SpecMix == InitMix /\ [][NextMix]_vars

Spec == Init /\ [][Next]_vars

\* a request has a next step exactly until it has answered
NextUntilDone == (pc # "done") <=> ENABLED <<Next>>_vars

\* quiz() is synchronous code: a request that can take a step takes it.  This
\* is WF_vars(Next), that is []<>~ENABLED <<Next>>_vars \/ []<><<Next>>_vars,
\* with ENABLED <<Next>>_vars written as pc # "done" (NextUntilDone) and
\* <<Next>>_vars as a change of state, which under Spec is a step of Next
Scheduled == []<>(pc = "done") \/ []<><<TRUE>>_vars

FairSpec == Spec /\ Scheduled

---------------------------------------------------------------------------
(* One call of _sample on inputs drawn from the bounded sets.              *)

SampleItems == {<<"k">>, <<"j">>}

InitSample ==
    /\ s_seq \in StrUpTo(SampleItems, MaxSeqLen)
    /\ s_k \in -1..(MaxSeqLen + 1)
    /\ s_ret = NoCall
    /\ s_pc = "call"
    /\ m_text = None /\ m_pattern = None /\ m_ret = None /\ m_pc = "idle"
    /\ QuizIdle
    /\ ClientIdle
    /\ BatchIdle

CallSample ==
    /\ s_pc = "call"
    /\ s_ret' \in _sample(s_seq, s_k)
    /\ s_pc' = "done"
    /\ UNCHANGED <<s_seq, s_k, mask_vars, quiz_vars, client_vars, batch_vars>>

NextSample == CallSample

SpecSample == InitSample /\ [][NextSample]_vars

---------------------------------------------------------------------------
(* One call of _hide_pattern on inputs drawn from the bounded sets.        *)

MaskChars == {"k", "(", " ", "_"}
MaskTexts ==
    StrUpTo(MaskChars, MaxTextLen) \cup {BlankToken \o <<"k", "k">>, None}
MaskPatterns == StrUpTo(MaskChars, MaxPatLen) \cup {BlankToken, None}

InitMask ==
    /\ m_text \in MaskTexts
    /\ m_pattern \in MaskPatterns
    /\ m_ret = None
    /\ m_pc = "call"
    /\ s_seq = <<>> /\ s_k = 0 /\ s_ret = NoCall /\ s_pc = "idle"
    /\ QuizIdle
    /\ ClientIdle
    /\ BatchIdle

CallMask ==
    /\ m_pc = "call"
    /\ m_ret' = _hide_pattern(m_text, m_pattern)
    /\ m_pc' = "done"
    /\ UNCHANGED <<m_text, m_pattern, sample_vars, quiz_vars, client_vars, batch_vars>>

NextMask == CallMask

SpecMask == InitMask /\ [][NextMask]_vars

---------------------------------------------------------------------------
(* supabase(): request threads of the worker pool calling it at once, one  *)
(* step for every read or write of the global _supabase.                   *)

\* every thread is about to call supabase(); no client exists yet
InitClient ==
    /\ _supabase = NoClient
    /\ c_pc = [th \in Threads |-> "call"]
    /\ c_new = [th \in Threads |-> NoClient]
    /\ c_ret = [th \in Threads |-> NoClient]
    /\ created = 0
    /\ QuizIdle
    /\ UtilIdle
    /\ BatchIdle

\* if _supabase is None
client_test(th) ==
    /\ c_pc[th] = "call"
    /\ c_pc' = [c_pc EXCEPT ![th] = IF _supabase = NoClient THEN "create" ELSE "return"]
    /\ UNCHANGED <<_supabase, c_new, c_ret, created>>

\* create_client(SUPABASE_URL, SUPABASE_KEY): a new client object
client_create(th) ==
    /\ c_pc[th] = "create"
    /\ created' = created + 1
    /\ c_new' = [c_new EXCEPT ![th] = created + 1]
    /\ c_pc' = [c_pc EXCEPT ![th] = "store"]
    /\ UNCHANGED <<_supabase, c_ret>>

\* _supabase = <the client made>
client_store(th) ==
    /\ c_pc[th] = "store"
    /\ _supabase' = c_new[th]
    /\ c_pc' = [c_pc EXCEPT ![th] = "return"]
    /\ UNCHANGED <<c_new, c_ret, created>>

\* return _supabase
client_return(th) ==
    /\ c_pc[th] = "return"
    /\ c_ret' = [c_ret EXCEPT ![th] = _supabase]
    /\ c_pc' = [c_pc EXCEPT ![th] = "done"]
    /\ UNCHANGED <<_supabase, c_new, created>>

NextClient ==
    /\ \E th \in Threads :
          \/ client_test(th)
          \/ client_create(th)
          \/ client_store(th)
          \/ client_return(th)
    /\ UNCHANGED <<sample_vars, mask_vars, quiz_vars, batch_vars>>

SpecClient == InitClient /\ [][NextClient]_vars

---------------------------------------------------------------------------
(* The batch loaders load_expanded_all.upsert_grammar and                  *)
(* load_all.upsert_file, run one after the other over the same CSV file    *)
(* against one store. A cell is a tuple of characters. Of the columns the  *)
(* model carries the three key columns of a point and the two of an        *)
(* example; the master data (meaning_es, meaning_en, notes, tags, source)  *)
(* and romaji, en, hint are in no key and in no test of the loaders.       *)
(* The store answers every request: .eq filters compare by equality,       *)
(* select returns the matching rows in table order, insert adds a row.     *)

Loaders == {"upsert_grammar", "upsert_file"}

CsvRow(level_code, title, pattern, jp, es) ==
    [level_code |-> level_code, title |-> title, pattern |-> pattern,
     jp |-> jp, es |-> es]

\* rows as pd.read_csv(dtype=str, keep_default_na=False) gives them
CsvRowKinds == <<
    CsvRow(<<"N", "5">>, <<"t">>, <<"p">>, <<"k">>, <<"e">>),
    CsvRow(<<"N", "5", " ">>, <<" ", "t">>, <<"p">>, <<"k", " ">>, <<"e">>),
    CsvRow(<<"n", "5">>, <<"t">>, <<"p">>, <<"k">>, <<"e">>),
    CsvRow(<<"N", "5">>, <<"t">>, <<"p">>, <<" ">>, <<"e">>),
    CsvRow(<<"N", "5">>, <<"t">>, <<>>, <<"j">>, <<>>),
    CsvRow(<<"N", "5">>, <<"u">>, <<"p">>, <<"k">>, <<"e">>) >>

\* the files: up to MaxRows rows
CsvFiles ==
    UNION {[1..len -> Range(CsvRowKinds)] : len \in 0..MaxRows}

\* str.upper
upper(str) == [i \in DOMAIN str |-> IF str[i] = "n" THEN "N" ELSE str[i]]

\* upsert_grammar: df[c] = df[c].astype(str).str.strip() for the five columns
clean_grammar(row) ==
    CsvRow(strip(row.level_code), strip(row.title), strip(row.pattern),
           strip(row.jp), strip(row.es))

\* coerce_dataframe: strip every column, then level_code.str.upper().str.strip()
coerce_dataframe(row) ==
    CsvRow(strip(upper(strip(row.level_code))), strip(row.title),
           strip(row.pattern), strip(row.jp), strip(row.es))

\* the frame a loader works on
cleaned(loader, df) ==
    [i \in DOMAIN df |-> IF loader = "upsert_grammar" THEN clean_grammar(df[i])
                                                      ELSE coerce_dataframe(df[i])]

\* code point of a character of a key
ord(c) ==
    CASE c = " " -> 32 [] c = "5" -> 53 [] c = "N" -> 78 [] c = "n" -> 110
      [] c = "p" -> 112 [] c = "t" -> 116 [] c = "u" -> 117

\* str < str
RECURSIVE str_lt(_, _)
str_lt(a, b) ==
    IF b = <<>> THEN FALSE
    ELSE IF a = <<>> THEN TRUE
    ELSE IF a[1] # b[1] THEN ord(a[1]) < ord(b[1])
    ELSE str_lt(Tail(a), Tail(b))

\* tuple < tuple, for the keys of groupby
key_lt(a, b) ==
    \/ str_lt(a[1], b[1])
    \/ a[1] = b[1] /\ str_lt(a[2], b[2])
    \/ a[1] = b[1] /\ a[2] = b[2] /\ str_lt(a[3], b[3])

key_of(row) == <<row.level_code, row.title, row.pattern>>

\* the keys of a set in ascending order
RECURSIVE sorted_keys(_)
sorted_keys(keys) ==
    IF keys = {} THEN <<>>
    ELSE LET least == CHOOSE k \in keys : \A o \in keys \ {k} : key_lt(k, o)
         IN  <<least>> \o sorted_keys(keys \ {least})

\* df.groupby(["level_code", "title", "pattern"]): the group keys, sorted
groupby(df) == sorted_keys({key_of(df[i]) : i \in DOMAIN df})

\* g: the rows of a group in the order of the frame
group_rows(df, key) == SelectSeq(df, LAMBDA row : key_of(row) = key)

\* table("grammar_points").select("id").eq(level_code).eq(title).eq(pattern)
select_points(key) ==
    SelectSeq(grammar_points, LAMBDA p : <<p.level_code, p.title, p.pattern>> = key)

\* a loader that finds no example in the store
select_nothing(gid, jp, es) == <<>>

\* table("examples").select("id").eq(grammar_id).eq(jp).eq(es)
select_examples(gid, jp, es) ==
    SelectSeq(ex_table, LAMBDA e : e.grammar_id = gid /\ e.jp = jp /\ e.es = es)

\* upsert_grammar(df) / upsert_file(df) begins: cleaning, grouping, counters
load_begin(loader) ==
    /\ l_pc \in {"idle", "done"}
    /\ l_runs < MaxRuns
    /\ l_before' = IF l_pc = "done" THEN l_before \cup {l_loader} ELSE l_before
    /\ l_loader' = loader
    /\ l_df' = cleaned(loader, csv)
    /\ l_groups' = groupby(cleaned(loader, csv))
    /\ l_rows' = <<>>
    /\ l_grammar_id' = 0
    /\ new_points' = 0 /\ updated_points' = 0
    /\ examples_inserted' = 0 /\ examples_skipped' = 0
    /\ l_pc' = "group"
    /\ UNCHANGED <<grammar_points, ex_table, csv, l_runs>>

\* one group: the point is looked up, then updated or inserted
upsert_point ==
    /\ l_pc = "group"
    /\ l_groups # <<>>
    /\ LET key == Head(l_groups)
           existing == select_points(key)
       IN  IF existing # <<>>
           THEN /\ l_grammar_id' = existing[1].id
                /\ updated_points' = updated_points + 1
                /\ UNCHANGED <<grammar_points, new_points>>
           ELSE /\ grammar_points' = Append(grammar_points,
                        [id |-> Len(grammar_points) + 1, level_code |-> key[1],
                         title |-> key[2], pattern |-> key[3]])
                /\ l_grammar_id' = Len(grammar_points) + 1
                /\ new_points' = new_points + 1
                /\ UNCHANGED updated_points
    /\ l_rows' = group_rows(l_df, Head(l_groups))
    /\ l_pc' = "rows"
    /\ UNCHANGED <<ex_table, csv, l_loader, l_df, l_groups, examples_inserted,
                   examples_skipped, l_runs, l_before>>

\* one row of the group: skipped when incomplete or already stored, else inserted
upsert_example ==
    /\ l_pc = "rows"
    /\ l_rows # <<>>
    /\ LET jp == strip(Head(l_rows).jp)
           es == strip(Head(l_rows).es)
       IN  IF jp = <<>> \/ es = <<>>
           THEN /\ examples_skipped' = examples_skipped + 1
                /\ UNCHANGED <<ex_table, examples_inserted>>
           ELSE IF select_examples(l_grammar_id, jp, es) # <<>>
           THEN /\ examples_skipped' = examples_skipped + 1
                /\ UNCHANGED <<ex_table, examples_inserted>>
           ELSE /\ ex_table' = Append(ex_table,
                        [id |-> Len(ex_table) + 1, grammar_id |-> l_grammar_id,
                         jp |-> jp, es |-> es])
                /\ examples_inserted' = examples_inserted + 1
                /\ UNCHANGED examples_skipped
    /\ l_rows' = Tail(l_rows)
    /\ UNCHANGED <<grammar_points, csv, l_loader, l_pc, l_df, l_groups,
                   l_grammar_id, new_points, updated_points, l_runs, l_before>>

\* the rows of the group are done: next group
group_end ==
    /\ l_pc = "rows"
    /\ l_rows = <<>>
    /\ l_groups' = Tail(l_groups)
    /\ l_pc' = "group"
    /\ UNCHANGED <<grammar_points, ex_table, csv, l_loader, l_df, l_rows,
                   l_grammar_id, new_points, updated_points, examples_inserted,
                   examples_skipped, l_runs, l_before>>

\* the groups are done: the loader returns its counters
load_end ==
    /\ l_pc = "group"
    /\ l_groups = <<>>
    /\ l_pc' = "done"
    /\ l_runs' = l_runs + 1
    /\ UNCHANGED <<grammar_points, ex_table, csv, l_loader, l_df, l_groups,
                   l_rows, l_grammar_id, new_points, updated_points,
                   examples_inserted, examples_skipped, l_before>>

\* an empty store, a file, no run yet
InitLoader ==
    /\ csv \in CsvFiles
    /\ grammar_points = <<>> /\ ex_table = <<>>
    /\ l_loader = "none" /\ l_pc = "idle"
    /\ l_df = <<>> /\ l_groups = <<>> /\ l_rows = <<>>
    /\ l_grammar_id = 0
    /\ new_points = 0 /\ updated_points = 0
    /\ examples_inserted = 0 /\ examples_skipped = 0
    /\ l_runs = 0 /\ l_before = {}
    /\ PipelineIdle
    /\ QuizIdle
    /\ UtilIdle
    /\ ClientIdle

NextLoader ==
    /\ \/ \E loader \in Loaders : load_begin(loader)
       \/ upsert_point
       \/ upsert_example
       \/ group_end
       \/ load_end
    /\ UNCHANGED <<sample_vars, mask_vars, quiz_vars, client_vars, pipeline_vars>>

SpecLoader == InitLoader /\ [][NextLoader]_vars

---------------------------------------------------------------------------
(* expand_all.py: main() runs seven commands through run_step, each a      *)
(* child process whose exit status, stdout and stderr the model draws.     *)

LEVELS == <<"n5", "n4", "n3", "n2", "n1">>

\* the (command, desc) pairs main() hands to run_step, in its order
Steps ==
    [i \in DOMAIN LEVELS |->
        [command |-> <<"python", "expand_dataset", LEVELS[i]>>,
         desc |-> <<"Expandir", LEVELS[i]>>]]
    \o << [command |-> <<"python", "merge_datasets">>, desc |-> <<"Unir datasets">>],
          [command |-> <<"python", "load_expanded_all">>, desc |-> <<"Cargar Supabase">>] >>

\* exit statuses of a child process
ExitStatuses == {0, 1, 2}

\* a run_step that takes every exit status for a success
check_never(returncode) == FALSE

\* subprocess.run(..., check=True) raises CalledProcessError
check_failed(returncode) == returncode # 0

\* run_step begins: "[START]" is printed and the child process is started
run_step_start ==
    /\ p_pc = "main"
    /\ p_step <= Len(Steps)
    /\ p_started' = Append(p_started, Steps[p_step].command)
    /\ p_log' = Append(p_log, <<"[START]", Steps[p_step].desc>>)
    /\ p_pc' = "running"
    /\ UNCHANGED <<p_step, p_statuses, p_exit>>

\* the child process exits: "[OK]" and its output, or "[ERROR]" and sys.exit(1)
run_step_exit(returncode, has_stdout, has_stderr) ==
    /\ p_pc = "running"
    /\ p_statuses' = Append(p_statuses, returncode)
    /\ IF check_failed(returncode)
       THEN /\ p_log' = p_log \o << <<"[ERROR]", Steps[p_step].desc>>,
                                    <<"stderr", has_stderr>> >>
            /\ p_exit' = 1
            /\ p_pc' = "exited"
            /\ UNCHANGED p_step
       ELSE /\ p_log' = p_log \o << <<"[OK]", Steps[p_step].desc>> >>
                        \o (IF has_stdout THEN << <<"stdout", TRUE>> >> ELSE <<>>)
                        \o (IF has_stderr THEN << <<"stderr", TRUE>> >> ELSE <<>>)
            /\ p_step' = p_step + 1
            /\ p_pc' = "main"
            /\ UNCHANGED p_exit
    /\ UNCHANGED p_started

\* main() returns after the last step: "[DONE]", exit status 0
main_done ==
    /\ p_pc = "main"
    /\ p_step > Len(Steps)
    /\ p_log' = Append(p_log, <<"[DONE]">>)
    /\ p_exit' = 0
    /\ p_pc' = "exited"
    /\ UNCHANGED <<p_step, p_started, p_statuses>>

\* main() is entered
InitPipeline ==
    /\ p_pc = "main" /\ p_step = 1
    /\ p_started = <<>> /\ p_statuses = <<>>
    /\ p_log = << <<"[START]">> >>
    /\ p_exit = NoExit
    /\ LoaderIdle
    /\ QuizIdle
    /\ UtilIdle
    /\ ClientIdle

NextPipeline ==
    /\ \/ run_step_start
       \/ \E returncode \in ExitStatuses, has_stdout, has_stderr \in BOOLEAN :
             run_step_exit(returncode, has_stdout, has_stderr)
       \/ main_done
    /\ UNCHANGED <<sample_vars, mask_vars, quiz_vars, client_vars, loader_vars>>

SpecPipeline == InitPipeline /\ [][NextPipeline]_vars

---------------------------------------------------------------------------
(* Vocabulary of the properties.                                           *)

\* pat is read at position i of text (the empty pat at every position and at the end)
MatchAt(pat, text, i) ==
    /\ i >= 1
    /\ i + Len(pat) - 1 <= Len(text)
    /\ SubSeq(text, i, i + Len(pat) - 1) = pat

\* pat occurs verbatim in text
Occurs(pat, text) == \E i \in 1..(Len(text) + 1) : MatchAt(pat, text, i)

\* out is text with the occurrences of a pat of length plen that start at
\* the positions in S replaced by the blank token, every other character kept
Spliced(text, S, plen, out) ==
    LET covered(i) == \E s \in S : s <= i /\ i < s + plen
        shift(i, strict) ==
            (4 - plen) * Cardinality({s \in S : IF strict THEN s < i ELSE s <= i})
    IN  /\ Len(out) = Len(text) + (4 - plen) * Cardinality(S)
        /\ \A i \in 1..Len(text) :
              ~covered(i) => out[i + shift(i, FALSE)] = text[i]
        /\ \A s \in S : \A d \in 0..3 : out[s + shift(s, TRUE) + d] = "_"

\* S holds the occurrences of pat in text that a left-to-right scan takes:
\* none overlaps another, and an occurrence left out overlaps one taken before it
ScanOccurrences(pat, text, S) ==
    /\ \A s \in S : MatchAt(pat, text, s)
    /\ \A s, t \in S : s < t => t >= s + Len(pat)
    /\ \A i \in 1..(Len(text) + 1) :
          MatchAt(pat, text, i) /\ i \notin S =>
              \E s \in S : s < i /\ i < s + Len(pat)

\* out is text with every scanned occurrence of pat replaced by the blank token
AllReplaced(pat, text, out) ==
    \E S \in SUBSET (1..(Len(text) + 1)) :
        ScanOccurrences(pat, text, S) /\ Spliced(text, S, Len(pat), out)

\* out is text with the first occurrence of pat, and nothing else, replaced
FirstReplaced(pat, text, out) ==
    \E i \in 1..(Len(text) + 1) :
        /\ MatchAt(pat, text, i)
        /\ \A j \in 1..(i - 1) : ~MatchAt(pat, text, j)
        /\ Spliced(text, {i}, Len(pat), out)

\* a run of two or more kana/kanji characters starts at i
JpRunAt(text, i) ==
    i >= 1 /\ i + 1 <= Len(text) /\ text[i] \in JpChars /\ text[i + 1] \in JpChars

\* out is text with its first maximal run of two or more kana/kanji characters
\* replaced by one blank token; text itself when it has no such run
FirstRunReplaced(text, out) ==
    IF \E i \in 1..Len(text) : JpRunAt(text, i)
    THEN \E i \in 1..Len(text) : \E e \in i..Len(text) :
            /\ JpRunAt(text, i)
            /\ \A j \in 1..(i - 1) : ~JpRunAt(text, j)
            /\ \A j \in i..e : text[j] \in JpChars
            /\ (e < Len(text) => text[e + 1] \notin JpChars)
            /\ Spliced(text, {i}, e - i + 1, out)
    ELSE out = text

---------------------------------------------------------------------------
(* C7: _sample(seq, k) returns, without raising, exactly                   *)
(* min(max(k, 0), len(seq)) elements taken from pairwise distinct          *)
(* positions of seq (no value more often than seq holds it): the empty     *)
(* list when k <= 0 or seq is empty, a permutation of seq (same multiset)  *)
(* when k >= len(seq); the call leaves seq as it was.                      *)
C7_SampleContract ==
    [][ s_pc = "call" /\ s_pc' = "done" =>
          /\ s_seq' = s_seq
          /\ ~s_ret'.raised
          /\ Len(s_ret'.value) = Min(Max(s_k, 0), Len(s_seq))
          /\ \A v \in SampleItems : Count(s_ret'.value, v) <= Count(s_seq, v)
          /\ (s_k <= 0 \/ s_seq = <<>>) => s_ret'.value = <<>>
          /\ s_k >= Len(s_seq) =>
                \A v \in SampleItems : Count(s_ret'.value, v) = Count(s_seq, v)
      ]_vars

\* a proper sample of a list holding a value twice has returned both copies
C7_Witness ==
    /\ s_pc = "done"
    /\ 0 < s_k /\ s_k < Len(s_seq)
    /\ ~s_ret.raised
    /\ Len(s_ret.value) = s_k
    /\ \E v \in SampleItems : Count(s_seq, v) = 2 /\ Count(s_ret.value, v) = 2

C9_FallbackWhenTargetAbsent ==
    (m_pc = "done" /\ m_text # None /\ (~Truthy(m_pattern) \/ ~Occurs(m_pattern, m_text)))
        => FirstRunReplaced(m_text, m_ret)

\* the questions of a request that returned
Returned == IF status = "ok" THEN Range(response) ELSE {}

C2_AnswerIdxFirstMatch ==
    \A q \in Returned :
        /\ 0 <= q.answer_idx /\ q.answer_idx < Len(q.choices)
        /\ q.choices[q.answer_idx + 1] = q.correct
        /\ \A j \in 1..q.answer_idx : q.choices[j] # q.correct

\* a distractor equal to the correct answer stands after the position found
C2_Witness ==
    \E q \in Returned :
        /\ Count(q.choices, q.correct) = 2
        /\ \E j \in (q.answer_idx + 2)..Len(q.choices) : q.choices[j] = q.correct

(* C3: when the fetch yields no grammar points the request ends with the   *)
(* 404, whatever n, type and lang are, no question is built and the        *)
(* examples are never fetched; a request ends in no other failure.         *)
C3_NotFoundOnly ==
    /\ db_points = <<>> => questions = <<>> /\ response = <<>> /\ ~fetched
    /\ pc = "done" =>
          /\ status \in {"ok", "404"}
          /\ status = "404" <=> db_points = <<>>

\* a request for cloze questions ended with the 404 although examples exist
C3_Witness ==
    /\ pc = "done" /\ status = "404"
    /\ type = "cloze" /\ db_examples # <<>> /\ n > 1

(* C4: over a non-empty points pool and an empty examples pool, a mix      *)
(* request for n >= 1 questions returns between 1 and n questions, each    *)
(* of type pattern or meaning.                                             *)
C4_MixWithoutExamples ==
    (pc = "done" /\ type = "mix" /\ db_points # <<>> /\ db_examples = <<>>) =>
        /\ status = "ok"
        /\ 1 <= Len(response) /\ Len(response) <= n
        /\ \A q \in Range(response) : q.type \in {"pattern", "meaning"}

\* such a request returned pattern and meaning questions
C4_Witness ==
    /\ pc = "done" /\ status = "ok" /\ type = "mix"
    /\ db_points # <<>> /\ db_examples = <<>> /\ n >= 3
    /\ {q.type : q \in Range(response)} = {"pattern", "meaning"}

(* C5: the list returned never has more than n questions, has fewer only   *)
(* when the attempt ceiling was reached, and over a non-empty points pool  *)
(* has exactly n questions for every type and every examples pool.         *)
C5_ExactlyCount ==
    /\ Len(response) <= n
    /\ (status = "ok" /\ Len(response) < n) => guard >= GuardLimit
    /\ (pc = "done" /\ db_points # <<>>) => status = "ok" /\ Len(response) = n

\* a cloze request without a usable example was filled by the fallback
C5_Witness ==
    /\ pc = "done" /\ status = "ok" /\ type = "cloze" /\ n >= 2
    /\ Len(response) = n
    /\ \A q \in Range(response) : q.type # "cloze"

(* C6: every request comes to an end; the single-type loop makes at most   *)
(* 200 turns, and every pass of the mix loop adds at least one question,   *)
(* so that the mix loop begins at most n passes.                           *)
C6_Terminates ==
    /\ <>(pc = "done")
    /\ [](guard <= GuardLimit)
    /\ [](passes <= n)
    /\ [](pc \in {"mix", "mix_end"} => Len(questions) >= passes - 1)
    /\ [](pc \in {"shuffle", "done"} => Len(questions) >= passes)

\* a mix request over examples none of which is usable ended after n passes
C6_Witness ==
    /\ pc = "done" /\ status = "ok" /\ type = "mix"
    /\ db_examples # <<>>
    /\ \A q \in Range(response) : q.type \in {"pattern", "meaning"}
    /\ passes >= 2

(* C10: in every question built no distractor equals the correct answer,   *)
(* so that the correct answer stands exactly once among the choices, also  *)
(* when two records of the pool share a pattern or a meaning.              *)
C10_CorrectOnlyOnce ==
    \A q \in Returned : Count(q.choices, q.correct) = 1

(* C11: no question quiz returns holds the empty string among its choices: *)
(* the correct answer of a record whose field is missing, empty or         *)
(* whitespace-only is the placeholder, and every distractor is non-empty.  *)
C11_NoEmptyChoice ==
    \A q \in Returned : \A i \in DOMAIN q.choices : q.choices[i] # <<>>

(* C12: in every cloze question the sentence returned does not hold the    *)
(* question's correct answer verbatim, also when the correct answer is the *)
(* example's own copy of the pattern because no linked grammar point gives *)
(* one.  Stated for the questions whose correct answer is not the empty    *)
(* string.                                                                 *)
C12_ClozeHidesAnswer ==
    \A q \in Returned :
        (q.type = "cloze" /\ q.correct # <<>>) => ~Occurs(q.correct, q.jp)

(* C13: every cloze or translation question returned was built from an     *)
(* example that has a non-empty source sentence jp: the examples without   *)
(* one are kept out of the cloze pool and of the translation pool.         *)
C13_FocalHasSentence ==
    \A q \in Returned :
        q.type \in {"cloze", "translation"} =>
            \A e \in Range(db_examples) : e.id = q.id => Truthy(e.jp)

(* C14: once the points pool is not empty a request never ends in an       *)
(* exception: examples missing or without a translation in the language    *)
(* asked for, records without pattern, meaning, id, level or grammar link, *)
(* and a grammar_id that matches no loaded point all end in a list of      *)
(* questions.                                                              *)
C14_NeverRaises ==
    db_points # <<>> =>
        /\ status \in {"none", "ok"}
        /\ pc = "done" => status = "ok" /\ Len(response) = n

\* a cloze question came back from an example without id, level and link
\* while the pool holds a grammar point without pattern and meaning
C14_Witness ==
    /\ pc = "done" /\ status = "ok"
    /\ \E p \in Range(points) :
          ~Truthy(p.pattern) /\ ~Truthy(p.meaning_es) /\ ~Truthy(p.meaning_en)
    /\ \E q \in Returned :
          /\ q.type = "cloze" /\ q.id = <<>>
          /\ q.meta.grammar_id = None /\ q.meta.level = None

\* a type is viable when its pre-filtered pool is not empty
Viable(ty) ==
    CASE ty = "cloze" ->
            \E e \in Range(examples) :
                Truthy(e.jp) /\ (Truthy(e.grammar_id) \/ Truthy(e.pattern))
      [] ty = "translation" ->
            \E e \in Range(examples) : Truthy(IF lang = "es" THEN e.es ELSE e.en)
      [] OTHER -> points # <<>>

\* the questions of type ty accumulated so far
Tally(ty) == Cardinality({i \in DOMAIN questions : questions[i].type = ty})

(* C15: in mix mode the list accumulated before the final shuffle follows  *)
(* the cyclic order cloze, pattern, meaning, translation restricted to the *)
(* viable types, a type that is not viable being skipped, so that a pass   *)
(* adds at most one question of a type and the numbers of questions of     *)
(* any two viable types differ by at most one.                             *)
C15_MixCyclicOrder ==
    (type = "mix" /\ pc \in {"mix", "mix_end", "shuffle"}) =>
        LET cycle == SelectSeq(<<"cloze", "pattern", "meaning", "translation">>, Viable)
        IN  /\ \A i \in DOMAIN questions :
                  questions[i].type = cycle[((i - 1) % Len(cycle)) + 1]
            /\ \A a, b \in Range(cycle) : Tally(a) - Tally(b) \in {-1, 0, 1}

\* all four types are viable and the fifth question is a cloze question again
C15_Witness ==
    /\ type = "mix" /\ pc = "shuffle"
    /\ \A ty \in Types \ {"mix"} : Viable(ty)
    /\ Len(questions) >= 5
    /\ questions[4].type = "translation" /\ questions[5].type = "cloze"

\* cloze is not viable, translation is, and the pass goes on after the skip
C15_SkipWitness ==
    /\ type = "mix" /\ pc = "shuffle"
    /\ ~Viable("cloze") /\ Viable("translation")
    /\ Len(questions) >= 4
    /\ questions[1].type = "pattern" /\ questions[3].type = "translation"
    /\ questions[4].type = "pattern"

(* C16: a request for a single type whose pool is not empty returns only   *)
(* questions of that type; when the pool is empty every slot is filled by  *)
(* the first type, in the order pattern, meaning, cloze, translation with  *)
(* the requested type left out, that can make a question, and the request  *)
(* still returns n questions.                                              *)
C16_SingleTypeOrFirstAlternative ==
    (pc = "done" /\ status = "ok" /\ type # "mix") =>
        LET others == SelectSeq(<<"pattern", "meaning", "cloze", "translation">>,
                                LAMBDA ty : ty # type /\ Viable(ty))
            filler == IF Viable(type) THEN type ELSE others[1]
        IN  /\ Len(response) = n
            /\ \A q \in Range(response) : q.type = filler

\* translations into English were asked for, the examples have none, and
\* every slot was filled by a pattern question
C16_Witness ==
    /\ pc = "done" /\ status = "ok"
    /\ type = "translation" /\ lang = "en" /\ n >= 2
    /\ examples # <<>> /\ ~Viable("translation") /\ Viable("cloze")
    /\ \A q \in Range(response) : q.type = "pattern"

\* the example a request over a single example builds its question from
Focal == db_examples[1]

\* the distinct non-empty patterns, other than the correct answer, of the
\* points of pts
Eligible(pts, correct) ==
    {pts[i].pattern : i \in {j \in DOMAIN pts :
        Truthy(pts[j].pattern) /\ pts[j].pattern # correct}}

\* the points of the level of the focal example
SameLevel ==
    SelectSeq(points, LAMBDA p : p.level_code = Or(Focal.level_code, <<>>))

(* C17: the distractors of a cloze question come only from the patterns of *)
(* the points at the example's level when that level offers at least 3     *)
(* distinct non-empty patterns other than the correct answer; when it      *)
(* offers fewer than 3 distinct ones the candidates are those of the whole *)
(* pool, so that 3 distractors are obtained whenever the whole pool has 3  *)
(* distinct eligible patterns.                                             *)
C17_WidenBelowThreeDistinct ==
    \A q \in Returned :
        q.type = "cloze" =>
            LET level == Eligible(SameLevel, q.correct)
                whole == Eligible(points, q.correct)
            IN  /\ Cardinality(level) >= 3 => Range(q.candidates) = level
                /\ Cardinality(level) < 3 => Range(q.candidates) = whole
                /\ Cardinality(whole) >= 3 => Len(q.choices) = 4

\* no value stands twice in seq
Distinct(seq) == \A i, j \in DOMAIN seq : i # j => seq[i] # seq[j]

(* C18: in every cloze question the choices are pairwise distinct strings: *)
(* the candidates are deduplicated before sampling and none equals the     *)
(* correct answer, whatever duplicates the points pool holds and whether   *)
(* or not the candidates were widened to the whole pool.                   *)
C18_ClozeChoicesDistinct ==
    \A q \in Returned :
        q.type = "cloze" =>
            /\ Distinct(q.candidates)
            /\ \A i \in DOMAIN q.candidates : q.candidates[i] # q.correct
            /\ Distinct(q.choices)

\* the level offered two candidates, the candidates were widened over a pool
\* that holds one of the patterns chosen at both levels, and four distinct
\* choices came back
C18_Witness ==
    \E q \in Returned :
        /\ q.type = "cloze"
        /\ Len(q.choices) = 4
        /\ Cardinality(Eligible(SameLevel, q.correct)) = 2
        /\ Range(q.candidates) # Eligible(SameLevel, q.correct)
        /\ \E v \in Range(q.choices) :
              Cardinality({i \in DOMAIN points : points[i].pattern = v}) >= 2

(* C19: _hide_pattern takes the target as a literal string: whatever the   *)
(* target, metacharacters included, what it returns is either the sentence *)
(* with the occurrences of the literal target text replaced, or, the       *)
(* target not occurring, the result of the fallback; a blank never stands  *)
(* where the literal target text does not occur.                           *)
C19_ReplacesLiteralTargetOnly ==
    (m_pc = "done" /\ Truthy(m_text)) =>
        \/ /\ Truthy(m_pattern) /\ Occurs(m_pattern, m_text)
           /\ AllReplaced(m_pattern, m_text, m_ret)
        \/ FirstRunReplaced(m_text, m_ret)

(* C20: under every interleaving of the request threads that call          *)
(* supabase(), the client is created at most once and every caller gets    *)
(* the same client object.                                                 *)
C20_OneSharedClient ==
    /\ created <= 1
    /\ \A th, ot \in Threads :
          (c_pc[th] = "done" /\ c_pc[ot] = "done") => c_ret[th] = c_ret[ot]

(* C21: a run of a loader over rows the same loader has processed before   *)
(* inserts no grammar point and no example; the store never holds two      *)
(* points with one (level_code, title, pattern) nor two examples with one  *)
(* (grammar_id, jp, es); no stored example has an empty jp or es.          *)
C21_LoadersIdempotent ==
    /\ (l_loader \in l_before) => (new_points = 0 /\ examples_inserted = 0)
    /\ \A i, j \in DOMAIN grammar_points :
          <<grammar_points[i].level_code, grammar_points[i].title,
            grammar_points[i].pattern>>
          = <<grammar_points[j].level_code, grammar_points[j].title,
              grammar_points[j].pattern>> => i = j
    /\ \A i, j \in DOMAIN ex_table :
          <<ex_table[i].grammar_id, ex_table[i].jp, ex_table[i].es>>
          = <<ex_table[j].grammar_id, ex_table[j].jp, ex_table[j].es>> => i = j
    /\ \A i \in DOMAIN ex_table : ex_table[i].jp # <<>> /\ ex_table[i].es # <<>>

\* a second run of a loader has ended over a file with a repeated row and a
\* row without jp; the store holds examples and rows were skipped
C21_Witness ==
    /\ l_pc = "done" /\ l_loader \in l_before
    /\ ex_table # <<>> /\ Len(grammar_points) >= 2
    /\ examples_skipped = Len(csv) /\ updated_points >= 2
    /\ \E i \in DOMAIN csv : strip(csv[i].jp) = <<>>

(* C22: the steps start in the order expand n5, n4, n3, n2, n1, merge,     *)
(* load; a step starts only after every earlier step exited with status    *)
(* zero; at the first non-zero status the pipeline exits with status 1     *)
(* and starts nothing more, so load never starts after a failed expand or  *)
(* merge; the pipeline exits with status 0 only after all seven exited     *)
(* with status zero.                                                       *)
C22_StepsInOrderStopAtFailure ==
    /\ Len(p_started) <= Len(Steps)
    /\ \A i \in DOMAIN p_started : p_started[i] = Steps[i].command
    /\ Len(p_statuses) \in {Len(p_started) - 1, Len(p_started)}
    /\ \A i \in DOMAIN p_statuses :
          p_statuses[i] # 0 =>
              /\ i = Len(p_started)
              /\ p_pc = "exited" /\ p_exit = 1
    /\ p_exit = 1 => (p_statuses # <<>> /\ p_statuses[Len(p_statuses)] # 0)
    /\ p_exit = 0 => (Len(p_statuses) = Len(Steps) /\ \A i \in DOMAIN p_statuses : p_statuses[i] = 0)

\* the merge step failed after five expand steps that exited with zero: the
\* pipeline has exited and the load was not started
C22_Witness ==
    /\ p_pc = "exited" /\ p_exit = 1
    /\ Len(p_started) = Len(LEVELS) + 1
    /\ p_statuses[Len(p_statuses)] = 2

====
